---- MODULE Spec2Model ----
(***************************************************************************)
(* Model of AgentStateProvider (src/use-agent.tsx): the task fetch, the    *)
(* progressive document hydration with its durable cache, the background   *)
(* loop that merges later documents, and the object-URL cleanup effect.    *)
(*                                                                         *)
(* Every await of the source is a suspension point: a handler is split at  *)
(* its awaits, and each action below is the code that runs between one     *)
(* await resolving (or rejecting) and the next await being reached.        *)
(* React state setters are applied at once, together with the effects that *)
(* depend on the state they set (URL cleanup, retry interval).             *)
(*                                                                         *)
(* The durable cache (~/utils/indexeddb) is not part of the source at      *)
(* hand; it is modelled from its specification: a set of (taskId, index)   *)
(* keys, getAll sorted by index, put an upsert, clearTask deleting every   *)
(* entry of the task.  The cache is assumed to hold no expired entry at    *)
(* mount, so the retention sweep of line 309 deletes nothing.              *)
(*                                                                         *)
(* The schema derivation effect (lines 330-407) is an action of its own,   *)
(* DeriveSchema; it is flushed before the next state update is processed.  *)
(* Payloads without a schema make it a no-op (line 335), and Spec,         *)
(* SpecSingle and SpecLong are sessions with such payloads.                *)
(***************************************************************************)
EXTENDS Integers, Sequences, FiniteSets, TLC

\* Bounds of the model.
MaxRuns == 2        \* fetchData invocations in a session (mount included)
MaxDocs == 2        \* largest number of document refs of a task
MaxList == 2        \* longest groupList of a schema group
MaxGroup == 2       \* most entries in the group of a schema group

TaskIds == {"A", "B"}
NoTask == "none"
RoleIds == {"1", "15", "2"}
RunIds == 1..MaxRuns

VARIABLES
  readOnly,       \* line 103
  roleid,         \* line 108
  refs,           \* server side: number of document refs of each task
  mounted,        \* the provider is mounted
  renderError,    \* a state updater threw while rendering
  data,           \* line 88
  formStatus,     \* line 106
  isLoading,      \* line 104
  prevTaskIdRef,  \* line 87
  timerArmed,     \* the interval of lines 321-328 exists
  cache,          \* durable cache: set of <<taskId, index>>
  pendingClear,   \* clearTaskCache calls in flight, per task
  nextRun,        \* id of the next fetchData invocation
  run,            \* fetchData invocations: position and locals
  loop,           \* fetchRemainingDocuments invocations, by starting run
  created,        \* handles returned by URL.createObjectURL
  revokeCount,    \* calls of URL.revokeObjectURL per handle
  trace,          \* history: per run, the document operations it issued
  cleared,        \* history: tasks whose clear completed since last adopted
  adopted,        \* history: the task ids fetchData adopted, in order
  clearLog,       \* history: the arguments of the clearTaskCache calls
  schema,         \* data.schema of the payloads the server sends
  docType,        \* data.dbdata.header[0].shippingcode of those payloads
  allFormFields,  \* line 90
  formFields,     \* line 89
  effectData      \* the data the effect of lines 330-407 last ran with

vars == <<readOnly, roleid, refs, mounted, renderError, data, formStatus,
          isLoading, prevTaskIdRef, timerArmed, cache, pendingClear, nextRun,
          run, loop, created, revokeCount, trace, cleared, adopted,
          clearLog, schema, docType, allFormFields, formFields, effectData>>

schemaVars == <<schema, docType, allFormFields, formFields, effectData>>

----------------------------------------------------------------------------
\* Values

NoHandle == [site |-> "none", run |-> 0, index |-> 0]

\* A handle is named by the place that created it.
Handle(site, r, i) == [site |-> site, run |-> r, index |-> i]

NoZoning == [present |-> FALSE, currentDocument |-> NoHandle,
             allDocuments |-> <<>>, totalCount |-> 0, fromCache |-> FALSE,
             refs |-> 0]

NullData == [isNull |-> TRUE, taskid |-> NoTask, zoningdocuments |-> NoZoning]

\* An entry of allDocuments; "taskid" is history (the task the document was
\* cached or fetched for), not a field of the program's object.
DocEntry(t, i, h) == [index |-> i, imageUrl |-> h, taskid |-> t]

IdleRun == [pc |-> "idle", taskid |-> NoTask, total |-> 0,
            imageUrl |-> NoHandle, k |-> 0, outcome |-> "none",
            ack |-> "none"]
IdleLoop == [pc |-> "none", taskid |-> NoTask, i |-> 0, total |-> 0]

Event(op, i) == [op |-> op, index |-> i]

\* Schemas.  A group entry is its id and its field descriptors; a payload
\* either carries a schema (docType -> {groupList, group}) or none.
DocTypes == {"inv", "bol"}
GroupIds == {"g1", "g2"}
FieldSets == {"x", "y"}
Section(id, fields) == [id |-> id, fields |-> fields]
Undefined == Section("undefined", "undefined")
NoSchema == [present |-> FALSE, type |-> [ll \in {} |-> << >>]]
NullFields == [isNull |-> TRUE, sections |-> << >>]

----------------------------------------------------------------------------
\* Durable cache (modelled from its specification)

CachedIndices(t) == {i \in 0..(MaxDocs + 1) : <<t, i>> \in cache}

RECURSIVE SortedSeq(_)
SortedSeq(S) ==
  IF S = {} THEN <<>>
  ELSE LET m == CHOOSE x \in S : \A y \in S : x <= y
       IN <<m>> \o SortedSeq(S \ {m})

\* getAllDocuments(taskId): the cached documents sorted by index, each with
\* an object URL made for this call.
getAllDocuments(t, r) ==
  LET idx == SortedSeq(CachedIndices(t))
  IN [j \in 1..Len(idx) |-> DocEntry(t, idx[j], Handle("cache", r, idx[j]))]

saveDocument(c, t, i) == c \cup {<<t, i>>}

clearTaskCache(c, t) == {e \in c : e[1] # t}

----------------------------------------------------------------------------
\* Object-URL cleanup effect, lines 284-305

\* Number of revokeObjectURL calls the cleanup of value d makes on handle h:
\* one per entry of allDocuments holding it, one more for currentDocument.
RevokeTimes(d, h) ==
  Cardinality({j \in DOMAIN d.zoningdocuments.allDocuments :
                 d.zoningdocuments.allDocuments[j].imageUrl = h})
  + (IF d.zoningdocuments.currentDocument = h THEN 1 ELSE 0)

\* revokeCount after handles "fresh" were created and, if "clean", the
\* cleanup of the current data ran.
Revoked(fresh, clean) ==
  [h \in created \cup fresh |->
     (IF h \in created THEN revokeCount[h] ELSE 0)
     + (IF clean THEN RevokeTimes(data, h) ELSE 0)]

\* setData(new) with handles "fresh" created in the same step.  A state
\* update on an unmounted provider is dropped; null over null is a bail-out.
\* The retry interval effect (lines 321-328) re-runs with the new data.
DataChanges(new) == mounted /\ ~(data.isNull /\ new.isNull)
setData(new, fresh) ==
  /\ created' = created \cup fresh
  /\ revokeCount' = Revoked(fresh, DataChanges(new))
  /\ data' = IF DataChanges(new) THEN new ELSE data
  /\ timerArmed' = IF DataChanges(new) THEN (new.isNull /\ ~readOnly)
                   ELSE timerArmed

NoDataChange == UNCHANGED <<data, created, revokeCount, timerArmed>>

setFormStatus(s) == formStatus' = IF mounted THEN s ELSE formStatus
setIsLoading(b) == isLoading' = IF mounted THEN b ELSE isLoading


----------------------------------------------------------------------------
\* Values of data built by fetchData and fetchRemainingDocuments

\* lines 188-200
EnrichedHit(t, total, cachedDocs) ==
  [isNull |-> FALSE, taskid |-> t,
   zoningdocuments |->
     [present |-> TRUE, currentDocument |-> cachedDocs[1].imageUrl,
      allDocuments |-> cachedDocs, totalCount |-> total, fromCache |-> TRUE,
      refs |-> total]]

\* Fault: document 0 is published as currentDocument but left out of
\* allDocuments.
EnrichedMissWithoutEntry(t, total, imageUrl) ==
  [isNull |-> FALSE, taskid |-> t,
   zoningdocuments |->
     [present |-> TRUE, currentDocument |-> imageUrl,
      allDocuments |-> << >>, totalCount |-> total,
      fromCache |-> FALSE, refs |-> total]]

\* lines 223-232
EnrichedMiss(t, total, imageUrl) ==
  [isNull |-> FALSE, taskid |-> t,
   zoningdocuments |->
     [present |-> TRUE, currentDocument |-> imageUrl,
      allDocuments |-> <<DocEntry(t, 0, imageUrl)>>, totalCount |-> total,
      fromCache |-> FALSE, refs |-> total]]

\* lines 243-249: the payload with zoningdocuments deleted; the same value
\* stands for a payload that carries no usable refs (line 254).
WithoutDocuments(t) ==
  [isNull |-> FALSE, taskid |-> t, zoningdocuments |-> NoZoning]

\* Fault: the arrival replaces the documents already resolved.
MergedReplaces(prev, entry) ==
  [prev EXCEPT !.zoningdocuments =
     [@ EXCEPT !.present = TRUE, !.allDocuments = <<entry>>]]

\* Fault: the arrival also becomes the current document.
MergedAsCurrent(prev, entry) ==
  [prev EXCEPT !.zoningdocuments =
     [@ EXCEPT !.present = TRUE, !.allDocuments = Append(@, entry),
               !.currentDocument = entry.imageUrl]]

\* the updater of lines 128-141 applied to a non-null prev
Merged(prev, entry) ==
  [prev EXCEPT !.zoningdocuments =
     [@ EXCEPT !.present = TRUE, !.allDocuments = Append(@, entry)]]

----------------------------------------------------------------------------
\* fetchData, lines 152-281

Eligible == ~readOnly /\ roleid \in {"1", "15"}

Log(r, op, i) == [trace EXCEPT ![r] = Append(@, Event(op, i))]

\* lines 153-157: up to the await of getAgentTaskDetails
FetchDataStart(r) ==
  /\ nextRun = r
  /\ r <= MaxRuns
  /\ nextRun' = r + 1
  /\ setIsLoading(TRUE)
  /\ run' = [run EXCEPT ![r] =
               IF Eligible THEN [IdleRun EXCEPT !.pc = "task"]
               ELSE [IdleRun EXCEPT !.pc = "done", !.outcome = "skipped"]]
  /\ UNCHANGED <<schemaVars, readOnly, roleid, refs, mounted, renderError, data,
                 formStatus, prevTaskIdRef, timerArmed, cache, pendingClear,
                 loop, created, revokeCount, trace, cleared, adopted,
                 clearLog>>

\* lines 409-411
refreshData == mounted /\ \E r \in RunIds : FetchDataStart(r)

\* lines 323-325: a tick of the retry interval
RetryTick == timerArmed /\ \E r \in RunIds : FetchDataStart(r)

\* lines 164-174: the previous task's cache is cleared on a task change
TaskChanged(t) == prevTaskIdRef # NoTask /\ prevTaskIdRef # t

AdoptTask(t) ==
  /\ pendingClear' = IF TaskChanged(t)
                     THEN [pendingClear EXCEPT ![prevTaskIdRef] = @ + 1]
                     ELSE pendingClear
  /\ clearLog' = IF TaskChanged(t) THEN Append(clearLog, prevTaskIdRef)
                 ELSE clearLog
  /\ prevTaskIdRef' = t
  /\ adopted' = Append(adopted, t)
  /\ cleared' = cleared \ {t}

\* lines 157-180 and 252-259: the task fetch returned status true and a
\* non-empty data, the payload of task t
TaskPayload(r, t) ==
  /\ run[r].pc = "task"
  /\ AdoptTask(t)
  /\ IF refs[t] > 0
     THEN /\ run' = [run EXCEPT ![r].pc = "lookup", ![r].taskid = t,
                                ![r].total = refs[t]]
          /\ NoDataChange
          /\ UNCHANGED formStatus
     ELSE /\ run' = [run EXCEPT ![r].pc = "ack", ![r].taskid = t,
                                ![r].outcome = "plain"]
          /\ setFormStatus("VALID")
          /\ setData(WithoutDocuments(t), {})
  /\ UNCHANGED <<schemaVars, readOnly, roleid, refs, mounted, renderError, isLoading,
                 cache, nextRun, loop, trace>>

\* lines 159, 269-273, 277-279: status false, or empty data with a
\* statusCode other than 501
TaskEmpty(r) ==
  /\ run[r].pc = "task"
  /\ run' = [run EXCEPT ![r].pc = "done", ![r].outcome = "cleared"]
  /\ setData(NullData, {})
  /\ setIsLoading(FALSE)
  /\ UNCHANGED <<schemaVars, readOnly, roleid, refs, mounted, renderError, formStatus,
                 prevTaskIdRef, cache, pendingClear, nextRun, loop, trace,
                 cleared, adopted, clearLog>>

\* Fault: the 501 branch also clears the task, as the empty-payload branch.
TaskNotProvisionedClears(r) ==
  /\ run[r].pc = "task"
  /\ run' = [run EXCEPT ![r].pc = "done", ![r].outcome = "notProvisioned"]
  /\ setFormStatus("INVALID")
  /\ setIsLoading(FALSE)
  /\ setData(NullData, {})
  /\ UNCHANGED <<schemaVars, readOnly, roleid, refs, mounted, renderError,
                 prevTaskIdRef, cache, pendingClear, nextRun, loop, trace,
                 cleared, adopted, clearLog>>

\* lines 159, 269-270, 277-279: status true, empty data and statusCode 501
TaskNotProvisioned(r) ==
  /\ run[r].pc = "task"
  /\ run' = [run EXCEPT ![r].pc = "done", ![r].outcome = "notProvisioned"]
  /\ setFormStatus("INVALID")
  /\ setIsLoading(FALSE)
  /\ NoDataChange
  /\ UNCHANGED <<schemaVars, readOnly, roleid, refs, mounted, renderError,
                 prevTaskIdRef, cache, pendingClear, nextRun, loop, trace,
                 cleared, adopted, clearLog>>

\* lines 274-279: getAgentTaskDetails threw
TaskError(r) ==
  /\ run[r].pc = "task"
  /\ run' = [run EXCEPT ![r].pc = "done", ![r].outcome = "cleared"]
  /\ setData(NullData, {})
  /\ setIsLoading(FALSE)
  /\ UNCHANGED <<schemaVars, readOnly, roleid, refs, mounted, renderError, formStatus,
                 prevTaskIdRef, cache, pendingClear, nextRun, loop, trace,
                 cleared, adopted, clearLog>>

\* Fault: the loop starts one index early.
StartedLoopFromPrevious(r, t, total, startIndex) ==
  [loop EXCEPT ![r] = [pc |-> "fetch", taskid |-> t, i |-> startIndex - 1,
                       total |-> total]]

\* lines 113-120: fetchRemainingDocuments runs up to its first await, so the
\* fetch pair of startIndex is issued in the step that starts the loop.
StartedLoop(r, t, total, startIndex) ==
  [loop EXCEPT ![r] = [pc |-> "fetch", taskid |-> t, i |-> startIndex,
                       total |-> total]]

\* lines 180-208: getAllDocuments resolved with at least one document
LookupHit(r) ==
  LET t == run[r].taskid
      total == run[r].total
      cachedDocs == getAllDocuments(t, r)
      k == Len(cachedDocs)
      fresh == {cachedDocs[j].imageUrl : j \in 1..k}
  IN /\ run[r].pc = "lookup"
     /\ k > 0
     /\ setData(EnrichedHit(t, total, cachedDocs), fresh)
     /\ setFormStatus("VALID")
     /\ run' = [run EXCEPT ![r].pc = "ack", ![r].k = k, ![r].outcome = "hit"]
     /\ IF k < total
        THEN /\ loop' = StartedLoop(r, t, total, k)
             /\ trace' = [trace EXCEPT
                            ![r] = @ \o <<Event("publish", 0),
                                          Event("fetch", loop'[r].i)>>]
        ELSE /\ loop' = loop
             /\ trace' = Log(r, "publish", 0)
     /\ UNCHANGED <<schemaVars, readOnly, roleid, refs, mounted, renderError, isLoading,
                    prevTaskIdRef, cache, pendingClear, nextRun, cleared,
                    adopted, clearLog>>

\* lines 180-182, 209-214: getAllDocuments resolved empty; the fetch pair of
\* index 0 is issued
LookupMiss(r) ==
  /\ run[r].pc = "lookup"
  /\ Len(getAllDocuments(run[r].taskid, r)) = 0
  /\ run' = [run EXCEPT ![r].pc = "fetch0"]
  /\ trace' = Log(r, "fetch", 0)
  /\ NoDataChange
  /\ UNCHANGED <<schemaVars, readOnly, roleid, refs, mounted, renderError, formStatus,
                 isLoading, prevTaskIdRef, cache, pendingClear, nextRun, loop,
                 cleared, adopted, clearLog>>

\* Fault: the catch branch clears the task instead of publishing it without
\* its documents.
DegradeClears(r, fresh) ==
  /\ run' = [run EXCEPT ![r].pc = "ack", ![r].outcome = "degraded",
                        ![r].imageUrl = NoHandle]
  /\ setData(NullData, fresh)
  /\ setFormStatus("VALID")
  /\ UNCHANGED <<schemaVars, readOnly, roleid, refs, mounted, renderError, isLoading,
                 prevTaskIdRef, cache, pendingClear, nextRun, loop, trace,
                 cleared, adopted, clearLog>>

\* lines 242-259: the catch branch; fresh are the handles made before the throw
Degrade(r, fresh) ==
  /\ run' = [run EXCEPT ![r].pc = "ack", ![r].outcome = "degraded",
                        ![r].imageUrl = NoHandle]
  /\ setData(WithoutDocuments(run[r].taskid), fresh)
  /\ setFormStatus("VALID")
  /\ UNCHANGED <<schemaVars, readOnly, roleid, refs, mounted, renderError, isLoading,
                 prevTaskIdRef, cache, pendingClear, nextRun, loop, trace,
                 cleared, adopted, clearLog>>

\* line 180 rejecting
LookupFails(r) ==
  /\ run[r].pc = "lookup"
  /\ Degrade(r, {})

\* lines 211-221: both responses arrived and were decoded; saveDocument called
Fetch0Ok(r) ==
  LET imageUrl == Handle("fetch0", r, 0)
  IN /\ run[r].pc = "fetch0"
     /\ run' = [run EXCEPT ![r].pc = "save0", ![r].imageUrl = imageUrl]
     /\ trace' = Log(r, "save", 0)
     /\ created' = created \cup {imageUrl}
     /\ revokeCount' = Revoked({imageUrl}, FALSE)
     /\ UNCHANGED <<schemaVars, readOnly, roleid, refs, mounted, renderError, data,
                    formStatus, isLoading, prevTaskIdRef, timerArmed, cache,
                    pendingClear, nextRun, loop, cleared, adopted, clearLog>>

\* lines 211-216 throwing: a request or imageResponse.blob() failed
Fetch0Fails(r) ==
  /\ run[r].pc = "fetch0"
  /\ Degrade(r, {})

\* line 218 throwing after line 217 made the object URL
Fetch0JsonFails(r) ==
  /\ run[r].pc = "fetch0"
  /\ Degrade(r, {Handle("fetch0", r, 0)})

\* lines 221-241: saveDocument resolved
Save0Ok(r) ==
  LET t == run[r].taskid
      total == run[r].total
  IN /\ run[r].pc = "save0"
     /\ cache' = saveDocument(cache, t, 0)
     /\ setData(EnrichedMiss(t, total, run[r].imageUrl), {})
     /\ setFormStatus("VALID")
     /\ run' = [run EXCEPT ![r].pc = "ack", ![r].outcome = "miss",
                           ![r].imageUrl = NoHandle]
     /\ IF total > 1
        THEN /\ loop' = StartedLoop(r, t, total, 1)
             /\ trace' = [trace EXCEPT
                            ![r] = @ \o <<Event("publish", 0),
                                          Event("fetch", loop'[r].i)>>]
        ELSE /\ loop' = loop
             /\ trace' = Log(r, "publish", 0)
     /\ UNCHANGED <<schemaVars, readOnly, roleid, refs, mounted, renderError, isLoading,
                    prevTaskIdRef, pendingClear, nextRun, cleared, adopted,
                    clearLog>>

\* line 221 rejecting
Save0Fails(r) ==
  /\ run[r].pc = "save0"
  /\ Degrade(r, {})

\* lines 259-268, 277-279: agentKeyedOn returned (either status)
AckReturns(r) ==
  /\ run[r].pc = "ack"
  /\ run' = [run EXCEPT ![r].pc = "done", ![r].ack = "returned"]
  /\ setIsLoading(FALSE)
  /\ NoDataChange
  /\ UNCHANGED <<schemaVars, readOnly, roleid, refs, mounted, renderError, formStatus,
                 prevTaskIdRef, cache, pendingClear, nextRun, loop, trace,
                 cleared, adopted, clearLog>>

\* lines 259, 274-279: agentKeyedOn threw
AckThrows(r) ==
  /\ run[r].pc = "ack"
  /\ run' = [run EXCEPT ![r].pc = "done", ![r].ack = "threw"]
  /\ setData(NullData, {})
  /\ setIsLoading(FALSE)
  /\ UNCHANGED <<schemaVars, readOnly, roleid, refs, mounted, renderError, formStatus,
                 prevTaskIdRef, cache, pendingClear, nextRun, loop, trace,
                 cleared, adopted, clearLog>>

----------------------------------------------------------------------------
\* fetchRemainingDocuments, lines 111-150

\* line 115: i++ and the loop test; the next fetch pair is issued at once
Advanced(l) ==
  IF loop[l].i + 1 < loop[l].total
  THEN [loop EXCEPT ![l].pc = "fetch", ![l].i = @ + 1]
  ELSE [loop EXCEPT ![l].pc = "done"]

AdvancedTrace(l, tr) ==
  IF loop'[l].pc = "fetch"
  THEN [tr EXCEPT ![l] = Append(@, Event("fetch", loop'[l].i))]
  ELSE tr

\* lines 117-125: the pair of index i arrived and was decoded; saveDocument
\* is called
LoopFetchOk(l) ==
  /\ loop[l].pc = "fetch"
  /\ loop' = [loop EXCEPT ![l].pc = "save"]
  /\ trace' = Log(l, "save", loop[l].i)
  /\ UNCHANGED <<schemaVars, readOnly, roleid, refs, mounted, renderError, data,
                 formStatus, isLoading, prevTaskIdRef, timerArmed, cache,
                 pendingClear, nextRun, run, created, revokeCount, cleared,
                 adopted, clearLog>>

\* Fault: the catch sits outside the for loop, so a failure ends the loop.
LoopFetchFailsStops(l) ==
  /\ loop[l].pc = "fetch"
  /\ loop' = [loop EXCEPT ![l].pc = "done"]
  /\ trace' = Log(l, "failed", loop[l].i)
  /\ UNCHANGED <<schemaVars, readOnly, roleid, refs, mounted, renderError, data,
                 formStatus, isLoading, prevTaskIdRef, timerArmed, cache,
                 pendingClear, nextRun, run, created, revokeCount, cleared,
                 adopted, clearLog>>

\* lines 117-123 throwing, caught at line 144
LoopFetchFails(l) ==
  /\ loop[l].pc = "fetch"
  /\ loop' = Advanced(l)
  /\ trace' = AdvancedTrace(l, Log(l, "failed", loop[l].i))
  /\ UNCHANGED <<schemaVars, readOnly, roleid, refs, mounted, renderError, data,
                 formStatus, isLoading, prevTaskIdRef, timerArmed, cache,
                 pendingClear, nextRun, run, created, revokeCount, cleared,
                 adopted, clearLog>>

\* line 125 rejecting, caught at line 144
LoopSaveFails(l) ==
  /\ loop[l].pc = "save"
  /\ loop' = Advanced(l)
  /\ trace' = AdvancedTrace(l, Log(l, "failed", loop[l].i))
  /\ UNCHANGED <<schemaVars, readOnly, roleid, refs, mounted, renderError, data,
                 formStatus, isLoading, prevTaskIdRef, timerArmed, cache,
                 pendingClear, nextRun, run, created, revokeCount, cleared,
                 adopted, clearLog>>

\* lines 125-143 on a mounted provider: saveDocument resolved and the updater
\* of line 128 is applied to the current data.  Applied to null it throws
\* (prev.zoningdocuments) while rendering, which unmounts the provider.
LoopSaveOk(l) ==
  LET t == loop[l].taskid
      i == loop[l].i
      imageUrl == Handle("bg", l, i)
  IN /\ loop[l].pc = "save"
     /\ mounted
     /\ cache' = saveDocument(cache, t, i)
     /\ loop' = Advanced(l)
     /\ IF data.isNull
        THEN /\ mounted' = FALSE
             /\ renderError' = TRUE
             /\ timerArmed' = FALSE
             /\ trace' = AdvancedTrace(l, trace)
             /\ UNCHANGED <<data, created, revokeCount>>
        ELSE /\ setData(Merged(data, DocEntry(t, i, imageUrl)), {imageUrl})
             /\ trace' = AdvancedTrace(l, Log(l, "merge", i))
             /\ UNCHANGED <<mounted, renderError>>
     /\ UNCHANGED <<schemaVars, readOnly, roleid, refs, formStatus, isLoading,
                    prevTaskIdRef, pendingClear, nextRun, run, cleared,
                    adopted, clearLog>>

\* lines 125-143 after unmount: the update is dropped; whether the updater
\* is still evaluated (making an object URL nobody holds) is up to React.
LoopSaveOkUnmounted(l, evaluated) ==
  LET t == loop[l].taskid
      i == loop[l].i
      fresh == IF evaluated /\ ~data.isNull THEN {Handle("bg", l, i)} ELSE {}
  IN /\ loop[l].pc = "save"
     /\ ~mounted
     /\ cache' = saveDocument(cache, t, i)
     /\ loop' = Advanced(l)
     /\ trace' = AdvancedTrace(l, trace)
     /\ created' = created \cup fresh
     /\ revokeCount' = Revoked(fresh, FALSE)
     /\ UNCHANGED <<schemaVars, readOnly, roleid, refs, mounted, renderError, data,
                    formStatus, isLoading, prevTaskIdRef, timerArmed,
                    pendingClear, nextRun, run, cleared, adopted, clearLog>>

----------------------------------------------------------------------------
\* Schema derivation effect (lines 330-407)

\* lines 343-345: Array.prototype.find, the first entry whose id is sl
RECURSIVE find(_, _)
find(group, sl) ==
  IF group = << >> THEN Undefined
  ELSE IF Head(group).id = sl THEN Head(group)
  ELSE find(Tail(group), sl)

\* lines 342-350: the reduce over groupList, pushing the sections found
RECURSIVE groupListReduce(_, _, _)
groupListReduce(groupList, group, acc) ==
  IF groupList = << >> THEN acc
  ELSE LET section == find(group, Head(groupList))
       IN groupListReduce(Tail(groupList), group,
                          IF section # Undefined THEN Append(acc, section)
                          ELSE acc)

\* Fault: the projection walks group and keeps the entries groupList names.
allFormDataByGroup(type) ==
  [ll \in DOMAIN type |->
     SelectSeq(type[ll].group,
               LAMBDA e : \E p \in DOMAIN type[ll].groupList :
                            type[ll].groupList[p] = e.id)]

\* lines 340-354: the reduce over Object.keys(schema)
allFormData(type) ==
  [ll \in DOMAIN type |->
     groupListReduce(type[ll].groupList, type[ll].group, << >>)]

\* the effect is due: data changed since it last ran (deps of line 407)
EffectPending == mounted /\ data # effectData

\* lines 330-407.  Without a schema the guard of lines 331-336 fails.  When
\* the schema has no entry for docType, line 392 reads .schema of undefined:
\* the effect throws, which unmounts the provider with its updates.
DeriveSchema ==
  /\ EffectPending
  /\ effectData' = data
  /\ IF data.isNull \/ ~schema.present
     THEN UNCHANGED <<allFormFields, formFields, mounted, renderError,
                      timerArmed>>
     ELSE IF docType \in DOMAIN schema.type
     THEN /\ allFormFields' = allFormData(schema.type)
          /\ formFields' = [isNull |-> FALSE,
                            sections |-> allFormFields'[docType]]
          /\ UNCHANGED <<mounted, renderError, timerArmed>>
     ELSE /\ mounted' = FALSE
          /\ renderError' = TRUE
          /\ timerArmed' = FALSE
          /\ UNCHANGED <<allFormFields, formFields>>
  /\ UNCHANGED <<readOnly, roleid, refs, data, formStatus, isLoading,
                 prevTaskIdRef, cache, pendingClear, nextRun, run, loop,
                 created, revokeCount, trace, cleared, adopted, clearLog,
                 schema, docType>>

----------------------------------------------------------------------------
\* Detached work and teardown

\* line 170: a clearTaskCache call completes
ClearCompletes(t) ==
  /\ pendingClear[t] > 0
  /\ pendingClear' = [pendingClear EXCEPT ![t] = @ - 1]
  /\ cache' = clearTaskCache(cache, t)
  /\ cleared' = cleared \cup {t}
  /\ UNCHANGED <<schemaVars, readOnly, roleid, refs, mounted, renderError, data,
                 formStatus, isLoading, prevTaskIdRef, timerArmed, nextRun,
                 run, loop, created, revokeCount, trace, adopted, clearLog>>

\* lines 170-172: a clearTaskCache call rejects; only logged
ClearFails(t) ==
  /\ pendingClear[t] > 0
  /\ pendingClear' = [pendingClear EXCEPT ![t] = @ - 1]
  /\ UNCHANGED <<schemaVars, readOnly, roleid, refs, mounted, renderError, data,
                 formStatus, isLoading, prevTaskIdRef, timerArmed, cache,
                 nextRun, run, loop, created, revokeCount, trace, cleared,
                 adopted, clearLog>>

\* Fault: the interval effect returns no cleanup.
UnmountKeepsTimer ==
  /\ mounted
  /\ mounted' = FALSE
  /\ revokeCount' = Revoked({}, TRUE)
  /\ UNCHANGED <<schemaVars, readOnly, roleid, refs, renderError, data, formStatus,
                 isLoading, prevTaskIdRef, timerArmed, cache, pendingClear,
                 nextRun, run, loop, created, trace, cleared, adopted,
                 clearLog>>

\* the provider unmounts: the cleanups of lines 285-304 and 326 run
Unmount ==
  /\ mounted
  /\ mounted' = FALSE
  /\ timerArmed' = FALSE
  /\ revokeCount' = Revoked({}, TRUE)
  /\ UNCHANGED <<schemaVars, readOnly, roleid, refs, renderError, data, formStatus,
                 isLoading, prevTaskIdRef, cache, pendingClear, nextRun, run,
                 loop, created, trace, cleared, adopted, clearLog>>

----------------------------------------------------------------------------
\* Specification

\* Cache contents a session can start with: documents of earlier sessions,
\* each under an index its task has.
InitialCaches == SUBSET {e \in {"A"} \X (0..(MaxDocs - 1)) : e[2] < refs[e[1]]}

\* The servers' tasks: A has the most refs, B one fewer or none at all.
RefConfigs == {[t \in TaskIds |-> IF t = "A" THEN MaxDocs ELSE n] :
                 n \in {MaxDocs - 1, 0}}

\* The state after the mount effects ran, for a given session configuration,
\* server and cache: the first fetchData invocation (lines 314-319) is at its
\* first await and the retry interval of lines 321-328 is armed unless the
\* session is read-only.
Mounted ==
  /\ mounted = TRUE
  /\ renderError = FALSE
  /\ data = NullData
  /\ formStatus = "VALID"
  /\ isLoading = TRUE
  /\ prevTaskIdRef = NoTask
  /\ timerArmed = ~readOnly
  /\ pendingClear = [t \in TaskIds |-> 0]
  /\ nextRun = 2
  /\ run = [r \in RunIds |->
              IF r = 1
              THEN (IF Eligible THEN [IdleRun EXCEPT !.pc = "task"]
                    ELSE [IdleRun EXCEPT !.pc = "done", !.outcome = "skipped"])
              ELSE IdleRun]
  /\ loop = [r \in RunIds |-> IdleLoop]
  /\ created = {}
  /\ revokeCount = << >>
  /\ trace = [r \in RunIds |-> << >>]
  /\ cleared = {}
  /\ adopted = << >>
  /\ clearLog = << >>
  /\ allFormFields = [ll \in {} |-> << >>]
  /\ formFields = NullFields
  /\ effectData = NullData

\* the payloads of the session carry no schema
NoSchemaPayload == schema = NoSchema /\ docType = "inv"

Init ==
  /\ readOnly \in BOOLEAN
  /\ roleid \in RoleIds
  /\ refs \in RefConfigs
  /\ cache \in InitialCaches
  /\ NoSchemaPayload
  /\ Mounted

Next ==
  \/ refreshData
  \/ RetryTick
  \/ \E r \in RunIds, t \in TaskIds : TaskPayload(r, t)
  \/ \E r \in RunIds : TaskEmpty(r)
  \/ \E r \in RunIds : TaskNotProvisioned(r)
  \/ \E r \in RunIds : TaskError(r)
  \/ \E r \in RunIds : LookupHit(r)
  \/ \E r \in RunIds : LookupMiss(r)
  \/ \E r \in RunIds : LookupFails(r)
  \/ \E r \in RunIds : Fetch0Ok(r)
  \/ \E r \in RunIds : Fetch0Fails(r)
  \/ \E r \in RunIds : Fetch0JsonFails(r)
  \/ \E r \in RunIds : Save0Ok(r)
  \/ \E r \in RunIds : Save0Fails(r)
  \/ \E r \in RunIds : AckReturns(r)
  \/ \E r \in RunIds : AckThrows(r)
  \/ \E l \in RunIds : LoopFetchOk(l)
  \/ \E l \in RunIds : LoopFetchFails(l)
  \/ \E l \in RunIds : LoopSaveOk(l)
  \/ \E l \in RunIds, evaluated \in BOOLEAN : LoopSaveOkUnmounted(l, evaluated)
  \/ \E l \in RunIds : LoopSaveFails(l)
  \/ \E t \in TaskIds : ClearCompletes(t)
  \/ \E t \in TaskIds : ClearFails(t)
  \/ Unmount

Spec == Init /\ [][Next]_vars

\* A session in which nothing fails and fetchData runs once, on an empty
\* cache, with the provider staying mounted.  Every call eventually returns
\* and the event loop runs every continuation that is ready.
InitSingle ==
  /\ readOnly = FALSE
  /\ roleid \in {"1", "15"}
  /\ refs \in [TaskIds -> 1..MaxDocs]
  /\ cache = {}
  /\ NoSchemaPayload
  /\ Mounted

NextSingle ==
  \/ \E r \in RunIds, t \in TaskIds : TaskPayload(r, t)
  \/ \E r \in RunIds : LookupMiss(r)
  \/ \E r \in RunIds : Fetch0Ok(r)
  \/ \E r \in RunIds : Save0Ok(r)
  \/ \E r \in RunIds : AckReturns(r)
  \/ \E l \in RunIds : LoopFetchOk(l)
  \/ \E l \in RunIds : LoopSaveOk(l)

SpecSingle == InitSingle /\ [][NextSingle]_vars /\ WF_vars(NextSingle)

\* A session with one fetchData invocation (no refresh, no retry tick) on a
\* task with one more document than MaxDocs, so that a background loop has
\* indices on both sides of a failure.  Calls may fail and the provider may
\* unmount; the cache of task A starts with any subset of its documents.
LongRefs == [t \in TaskIds |-> IF t = "A" THEN MaxDocs + 1 ELSE 1]

InitLong ==
  /\ readOnly = FALSE
  /\ roleid \in {"1", "15"}
  /\ refs = LongRefs
  /\ cache \in SUBSET ({"A"} \X (0..MaxDocs))
  /\ NoSchemaPayload
  /\ Mounted

NextLong ==
  \/ \E r \in RunIds, t \in TaskIds : TaskPayload(r, t)
  \/ \E r \in RunIds : TaskEmpty(r)
  \/ \E r \in RunIds : TaskNotProvisioned(r)
  \/ \E r \in RunIds : TaskError(r)
  \/ \E r \in RunIds : LookupHit(r)
  \/ \E r \in RunIds : LookupMiss(r)
  \/ \E r \in RunIds : LookupFails(r)
  \/ \E r \in RunIds : Fetch0Ok(r)
  \/ \E r \in RunIds : Fetch0Fails(r)
  \/ \E r \in RunIds : Fetch0JsonFails(r)
  \/ \E r \in RunIds : Save0Ok(r)
  \/ \E r \in RunIds : Save0Fails(r)
  \/ \E r \in RunIds : AckReturns(r)
  \/ \E r \in RunIds : AckThrows(r)
  \/ \E l \in RunIds : LoopFetchOk(l)
  \/ \E l \in RunIds : LoopFetchFails(l)
  \/ \E l \in RunIds : LoopSaveOk(l)
  \/ \E l \in RunIds, evaluated \in BOOLEAN : LoopSaveOkUnmounted(l, evaluated)
  \/ \E l \in RunIds : LoopSaveFails(l)
  \/ Unmount

SpecLong == InitLong /\ [][NextLong]_vars

\* Sessions whose payloads carry a schema: one fetchData invocation on an
\* empty cache in which no call fails.  The schema has an entry for "inv"
\* and may have one for "bol"; docType names either.
SeqsUpTo(S, n) == UNION {[1..k -> S] : k \in 0..n}

SchemaGroups ==
  {[groupList |-> gl, group |-> g] :
     gl \in SeqsUpTo(GroupIds, MaxList),
     g \in SeqsUpTo({Section(id, f) : id \in GroupIds, f \in FieldSets},
                    MaxGroup)}

SmallSchemaGroups ==
  {[groupList |-> gl, group |-> g] :
     gl \in SeqsUpTo(GroupIds, 1),
     g \in SeqsUpTo({Section(id, "x") : id \in GroupIds}, 1)}

Schemas ==
  {[present |-> TRUE, type |-> [ll \in {"inv"} |-> sg]] :
     sg \in SchemaGroups}
  \cup {[present |-> TRUE,
         type |-> [ll \in DocTypes |-> IF ll = "inv" THEN sg ELSE sg2]] :
          sg \in SchemaGroups, sg2 \in SmallSchemaGroups}

InitSchema ==
  /\ readOnly = FALSE
  /\ roleid = "1"
  /\ refs = [t \in TaskIds |-> IF t = "A" THEN MaxDocs ELSE 1]
  /\ cache = {}
  /\ schema \in Schemas
  /\ docType \in DocTypes
  /\ Mounted

NextSchema ==
  \/ DeriveSchema
  \/ \E r \in RunIds, t \in TaskIds : ~EffectPending /\ TaskPayload(r, t)
  \/ \E r \in RunIds : ~EffectPending /\ LookupMiss(r)
  \/ \E r \in RunIds : ~EffectPending /\ Fetch0Ok(r)
  \/ \E r \in RunIds : ~EffectPending /\ Save0Ok(r)
  \/ \E r \in RunIds : ~EffectPending /\ AckReturns(r)
  \/ \E l \in RunIds : ~EffectPending /\ LoopFetchOk(l)
  \/ \E l \in RunIds : ~EffectPending /\ LoopSaveOk(l)
  \/ \E l \in RunIds, evaluated \in BOOLEAN :
       ~EffectPending /\ LoopSaveOkUnmounted(l, evaluated)

SpecSchema == InitSchema /\ [][NextSchema]_vars

----------------------------------------------------------------------------
\* Properties

Quiescent ==
  \A r \in RunIds : run[r].pc \in {"idle", "done"} /\ loop[r].pc \in {"none", "done"}

Published == mounted /\ ~data.isNull

AllDocuments == data.zoningdocuments.allDocuments

HeldHandles(d) ==
  {d.zoningdocuments.allDocuments[j].imageUrl :
     j \in DOMAIN d.zoningdocuments.allDocuments}
  \cup ({d.zoningdocuments.currentDocument} \ {NoHandle})

Count(tr, op, i) ==
  Cardinality({j \in DOMAIN tr : tr[j] = Event(op, i)})

\* C1: once no fetch is in flight, the published allDocuments of a task with
\* N refs has at most N entries, each with an index in [0, N), no index
\* occurring twice.
C1_AllDocumentsWithinRefs ==
  (Published /\ Quiescent) =>
    LET N == refs[data.taskid]
    IN /\ Len(AllDocuments) <= N
       /\ \A j \in DOMAIN AllDocuments : AllDocuments[j].index \in 0..(N - 1)
       /\ \A j, k \in DOMAIN AllDocuments :
            j # k => AllDocuments[j].index # AllDocuments[k].index

\* C2: no object URL held by the published data (currentDocument or an entry
\* of allDocuments) has been passed to URL.revokeObjectURL.
C2_PublishedHandlesLive ==
  Published => \A h \in HeldHandles(data) : revokeCount[h] = 0

\* C3: when the session has ended (provider unmounted, nothing in flight),
\* every object URL made by fetchData or fetchRemainingDocuments has been
\* revoked exactly once.
C3_RevokedExactlyOnce ==
  (~mounted /\ Quiescent) =>
    \A h \in created : h.site \in {"fetch0", "bg"} => revokeCount[h] = 1

RECURSIVE SwitchedFrom(_)
SwitchedFrom(s) ==
  IF Len(s) < 2 THEN << >>
  ELSE (IF s[1] # s[2] THEN <<s[1]>> ELSE << >>) \o SwitchedFrom(Tail(s))

\* C4: clearTaskCache is called once per task switch, with the task switched
\* from, and once such a clear has completed the cache holds no entry of
\* that task until the task is adopted again.
C4_ClearedTaskStaysEmpty ==
  /\ clearLog = SwitchedFrom(adopted)
  /\ \A t \in cleared : CachedIndices(t) = {}

\* C5: at most one background fetch pair is outstanding in the session, and
\* at most one background loop is between issuing a fetch and merging it.
C5_OneBackgroundFetch ==
  /\ Cardinality({l \in RunIds : loop[l].pc = "fetch"}) <= 1
  /\ Cardinality({l \in RunIds : loop[l].pc \in {"fetch", "save"}}) <= 1

\* C6: a rejecting cache operation falls back to the network: after
\* getAllDocuments or saveDocument rejects in fetchData the run goes on to
\* fetch document 0 or has published it as currentDocument, and a background
\* document whose saveDocument rejects is merged all the same.
C6_StorageFailureFallsBack ==
  [][/\ \A r \in RunIds :
          (mounted /\ run[r].pc \in {"lookup", "save0"}
             /\ run'[r].outcome = "degraded")
          => \/ run'[r].pc = "fetch0"
             \/ /\ ~data'.isNull
                /\ data'.zoningdocuments.currentDocument # NoHandle
     /\ \A l \in RunIds :
          (Published /\ loop[l].pc = "save" /\ loop'[l] # loop[l])
          => \E j \in DOMAIN data'.zoningdocuments.allDocuments :
               /\ data'.zoningdocuments.allDocuments[j].index = loop[l].i
               /\ j > Len(AllDocuments)]_vars

C7_HitStep(r) ==
  (mounted /\ run[r].pc = "lookup" /\ run'[r].outcome = "hit") =>
    LET zd == data'.zoningdocuments
        t == run[r].taskid
    IN /\ ~data'.isNull
       /\ run'[r].k = Cardinality(CachedIndices(t))
       /\ run'[r].k > 0
       /\ Len(zd.allDocuments) = run'[r].k
       /\ {zd.allDocuments[j].index : j \in DOMAIN zd.allDocuments}
            = CachedIndices(t)
       /\ \A j \in 1..(Len(zd.allDocuments) - 1) :
            zd.allDocuments[j].index < zd.allDocuments[j + 1].index
       /\ zd.currentDocument = zd.allDocuments[1].imageUrl
       /\ zd.fromCache

C7_HitFetches(r) ==
  run[r].outcome = "hit" =>
    /\ \A j \in DOMAIN trace[r] :
         trace[r][j].op = "fetch" => trace[r][j].index >= run[r].k
    /\ run[r].k >= run[r].total =>
         \A j \in DOMAIN trace[r] : trace[r][j].op # "fetch"

\* C7: on a cache hit with k documents the run publishes the cached sequence
\* (sorted by index) as allDocuments, its first element as currentDocument
\* and fromCache = TRUE; the run and its background loop fetch no index
\* below k, and nothing at all when k = N.
C7_CacheHit ==
  /\ [](\A r \in RunIds : C7_HitFetches(r))
  /\ [][\A r \in RunIds : C7_HitStep(r)]_vars

\* a hit on part of the documents whose background loop has finished
C7_Witness ==
  \E r \in RunIds :
    /\ run[r].outcome = "hit"
    /\ run[r].k < run[r].total
    /\ loop[r].pc = "done"
    /\ Count(trace[r], "merge", run[r].k) = 1

C8_MissStep(r) ==
  (run[r].pc = "save0" /\ run'[r].outcome = "miss") =>
    /\ trace[r] = <<Event("fetch", 0), Event("save", 0)>>
    /\ <<run[r].taskid, 0>> \in cache'
    /\ mounted =>
         LET zd == data'.zoningdocuments
         IN /\ ~data'.isNull
            /\ zd.currentDocument = run[r].imageUrl
            /\ zd.currentDocument \in created
            /\ zd.allDocuments = <<DocEntry(run[r].taskid, 0, zd.currentDocument)>>
            /\ zd.fromCache = FALSE
            /\ zd.totalCount = run[r].total

C8_MissOrder(r) ==
  LET tr == trace[r]
  IN (tr # << >> /\ tr[1] = Event("fetch", 0)) =>
       /\ Count(tr, "fetch", 0) = 1
       /\ \A j \in DOMAIN tr :
            tr[j].index >= 1 =>
              \E p \in 1..(j - 1) : tr[p].op = "publish"
       /\ \A j \in DOMAIN tr :
            tr[j].op = "publish" =>
              j = 3 /\ tr[2] = Event("save", 0)

\* C8: on a cache miss the run fetches index 0 exactly once, calls
\* saveDocument for index 0 and only then publishes currentDocument with
\* allDocuments = [doc0] and fromCache = FALSE; none of its fetches of an
\* index >= 1 precedes that publication.
C8_CacheMiss ==
  /\ [](\A r \in RunIds : C8_MissOrder(r))
  /\ [][\A r \in RunIds : C8_MissStep(r)]_vars

\* a miss that published document 0 and then fetched index 1 in the background
C8_Witness ==
  \E r \in RunIds :
    /\ run[r].outcome = "miss"
    /\ Len(trace[r]) >= 4
    /\ trace[r][4] = Event("fetch", 1)

C9_Ordered ==
  ~data.isNull =>
    /\ \A j \in DOMAIN AllDocuments : AllDocuments[j].index = j - 1
    /\ \A i \in 1..MaxDocs : Count(trace[1], "save", i) <= 1

C9_Complete ==
  /\ ~data.isNull
  /\ Len(AllDocuments) = refs[data.taskid]
  /\ \A i \in 1..(refs[data.taskid] - 1) : Count(trace[1], "save", i) = 1

C10_NotProvisionedStep(r) ==
  run[r].pc = "task" /\ run'[r].outcome = "notProvisioned"

\* C10: a 501 answer sets formStatus to INVALID and does nothing else: no
\* cache lookup, no document fetch, no acknowledgment, data and the retry
\* timer as before; and formStatus turns INVALID on no other step.
C10_NotProvisioned ==
  [][/\ \A r \in RunIds :
          C10_NotProvisionedStep(r) =>
            /\ mounted => formStatus' = "INVALID"
            /\ run'[r].pc = "done"
            /\ run'[r].ack = "none"
            /\ trace' = trace
            /\ loop' = loop
            /\ cache' = cache
            /\ data' = data
            /\ timerArmed' = timerArmed
     /\ (formStatus # "INVALID" /\ formStatus' = "INVALID") =>
          \E r \in RunIds : C10_NotProvisionedStep(r)]_vars

\* a 501 answer to a refresh while task data is published
C10_Witness ==
  \E r \in RunIds :
    /\ run[r].outcome = "notProvisioned"
    /\ formStatus = "INVALID"
    /\ Published

\* C11: the retry interval exists exactly while the provider is mounted,
\* not read-only and holds no task data; so never in a read-only session
\* and never after unmount.
C11_TimerWhileNoData ==
  timerArmed <=> (mounted /\ ~readOnly /\ data.isNull)

\* task data was published, a later run cleared it and the interval is back
C11_Witness ==
  /\ timerArmed
  /\ run[1].outcome \in {"hit", "miss", "plain"}
  /\ run[1].pc = "done"
  /\ run[2].outcome = "cleared"

\* C12: the step that ends the agentKeyedOn call, however the call ends,
\* leaves data, formStatus and the retry interval as they were.
C12_AckFailureOnlyLogged ==
  [][\A r \in RunIds :
       (run[r].pc = "ack" /\ run'[r].pc = "done") =>
         /\ data' = data
         /\ formStatus' = formStatus
         /\ timerArmed' = timerArmed]_vars

C14_DegradeStep(r) ==
  run[r].pc \in {"lookup", "fetch0", "save0"} /\ run'[r].outcome = "degraded"

\* C14: when the cache lookup or the resolution of document 0 fails, the
\* task is published without zoningdocuments, formStatus is VALID, the retry
\* interval is not armed, the run goes on to the acknowledgment and never
\* starts a background loop.
C14_DegradesGracefully ==
  /\ [][\A r \in RunIds :
          C14_DegradeStep(r) =>
            /\ run'[r].pc = "ack"
            /\ loop'[r].pc = "none"
            /\ mounted =>
                 /\ ~data'.isNull
                 /\ data'.taskid = run[r].taskid
                 /\ ~data'.zoningdocuments.present
                 /\ data'.zoningdocuments.allDocuments = << >>
                 /\ formStatus' = "VALID"
                 /\ ~timerArmed']_vars
  /\ [](\A r \in RunIds :
          run[r].outcome = "degraded" =>
            /\ loop[r].pc = "none"
            /\ \A j \in DOMAIN trace[r] : trace[r][j].index = 0)

\* a run whose document 0 could not be resolved, acknowledged, task published
C14_Witness ==
  \E r \in RunIds :
    /\ run[r].outcome = "degraded"
    /\ run[r].ack = "returned"
    /\ trace[r] # << >>
    /\ Published
    /\ ~data.zoningdocuments.present

C16_MergeStep(l) ==
  /\ loop[l].pc = "save"
  /\ Count(trace'[l], "merge", loop[l].i) > Count(trace[l], "merge", loop[l].i)

\* C16: a merge of index i appends one entry with index i to allDocuments
\* and changes nothing else of data: the earlier entries keep their values
\* and positions, currentDocument, totalCount, fromCache and the rest of the
\* payload stay.
C16_MergeFrame ==
  [][\A l \in RunIds :
       C16_MergeStep(l) =>
         LET old == data.zoningdocuments
             new == data'.zoningdocuments
             n == Len(old.allDocuments)
         IN /\ ~data.isNull /\ ~data'.isNull
            /\ data'.taskid = data.taskid
            /\ new.currentDocument = old.currentDocument
            /\ new.totalCount = old.totalCount
            /\ new.fromCache = old.fromCache
            /\ new.refs = old.refs
            /\ Len(new.allDocuments) = n + 1
            /\ \A j \in 1..n : new.allDocuments[j] = old.allDocuments[j]
            /\ new.allDocuments[n + 1].index = loop[l].i]_vars

\* index 1 was merged behind a document already published
C16_Witness ==
  /\ Published
  /\ Len(AllDocuments) >= 2
  /\ \E l \in RunIds : Count(trace[l], "merge", 1) = 1
  /\ AllDocuments[Len(AllDocuments)].index = 1
  /\ data.zoningdocuments.currentDocument # NoHandle

\* C17: every entry of the published allDocuments belongs to the published
\* task, and no arrival was merged into null data or into data whose
\* zoningdocuments had been dropped.
C17_MergeGatedByTask ==
  /\ ~renderError
  /\ Published =>
       /\ \A j \in DOMAIN AllDocuments : AllDocuments[j].taskid = data.taskid
       /\ AllDocuments # << >> =>
            data.zoningdocuments.currentDocument # NoHandle

RunInFlight == \E r \in RunIds : run[r].pc \notin {"idle", "done"}

\* C19: once every fetchData invocation has returned, isLoading is FALSE.
C19_LoadingEnds ==
  (mounted /\ ~RunInFlight) => ~isLoading

\* C20: isLoading is TRUE while a fetchData invocation is in flight.
C20_LoadingWhileInFlight ==
  (mounted /\ RunInFlight) => isLoading

\* the first index of run r's background loop (lines 207 and 238)
C13_Start(r) == IF run[r].outcome = "hit" THEN run[r].k ELSE 1

\* the indices run l's loop is done with
C13_Settled(l) ==
  {i \in C13_Start(l)..(loop[l].total - 1) :
     loop[l].pc = "done" \/ i < loop[l].i}

C13_FailureStep(l) ==
  Count(trace'[l], "failed", loop[l].i) > Count(trace[l], "failed", loop[l].i)

\* C13: a failure of the background loop at index i changes nothing of the
\* published state, index i is never fetched again, the loop goes straight
\* on to index i + 1, and of the indices the loop is done with exactly the
\* ones that did not fail are merged, later ones included.
C13_LoopFailureSkipsIndex ==
  /\ [][\A l \in RunIds :
          C13_FailureStep(l) =>
            /\ data' = data
            /\ formStatus' = formStatus
            /\ timerArmed' = timerArmed
            /\ isLoading' = isLoading
            /\ loop'[l] = Advanced(l)[l]]_vars
  /\ [](\A l \in RunIds :
          /\ \A i \in 0..MaxDocs :
               /\ Count(trace[l], "fetch", i) <= 1
               /\ Count(trace[l], "failed", i) <= 1
          /\ \A j \in DOMAIN trace[l] :
               trace[l][j].op = "failed" =>
                 IF trace[l][j].index + 1 < loop[l].total
                 THEN /\ j < Len(trace[l])
                      /\ trace[l][j + 1] = Event("fetch", trace[l][j].index + 1)
                 ELSE j = Len(trace[l]) /\ loop[l].pc = "done"
          /\ mounted =>
               \A i \in C13_Settled(l) :
                 Count(trace[l], "merge", i)
                   = 1 - Count(trace[l], "failed", i)
          /\ (Published /\ loop[l].pc # "none" /\ nextRun = 2) =>
               /\ formStatus = "VALID"
               /\ \A i \in C13_Settled(l) :
                    Count(trace[l], "failed", i) = 0 <=>
                      \E j \in DOMAIN AllDocuments :
                        /\ AllDocuments[j].index = i
                        /\ AllDocuments[j].imageUrl = Handle("bg", l, i))

\* index 1 failed, index 2 was fetched after it and is published
C13_Witness ==
  \E l \in RunIds :
    /\ Published
    /\ loop[l].pc = "done"
    /\ Count(trace[l], "failed", 1) = 1
    /\ \E j \in DOMAIN AllDocuments : AllDocuments[j].index = 2
    /\ \A j \in DOMAIN AllDocuments : AllDocuments[j].index # 1

C18_NoFailure(r) ==
  /\ run[r].outcome = "hit"
  /\ run[r].ack = "returned"
  /\ \A j \in DOMAIN trace[r] : trace[r][j].op # "failed"

\* C18: after a cache hit in a run where nothing failed, once the run and
\* its loop have settled the published allDocuments holds every index of
\* [0, N) exactly once, whatever subset the cache held.
C18_HitCompletes ==
  (Published /\ Quiescent /\ nextRun = 2 /\ C18_NoFailure(1)) =>
    /\ {AllDocuments[j].index : j \in DOMAIN AllDocuments}
         = 0..(run[1].total - 1)
    /\ Len(AllDocuments) = run[1].total

\* out is groupList projected through group: one entry per position of
\* groupList whose id some entry of group has, in the order of groupList,
\* each the first entry of group with that id
C15_Projected(sg, out) ==
  LET gl == sg.groupList
      g == sg.group
      Resolved == {p \in DOMAIN gl : \E q \in DOMAIN g : g[q].id = gl[p]}
      Rank(p) == Cardinality({p2 \in Resolved : p2 <= p})
  IN /\ Len(out) = Cardinality(Resolved)
     /\ \A p \in Resolved :
          \E q \in DOMAIN g :
            /\ out[Rank(p)] = g[q]
            /\ g[q].id = gl[p]
            /\ \A q2 \in 1..(q - 1) : g[q2].id # gl[p]

\* C15: once the effect has run on a payload with a schema, allFormFields
\* has exactly the schema's docTypes and, for each, groupList projected
\* through group (unresolved ids omitted, order of groupList, no entry
\* invented); running the effect again on the same payload leaves it equal.
C15_SchemaProjection ==
  /\ []((mounted /\ ~effectData.isNull) =>
          /\ DOMAIN allFormFields = DOMAIN schema.type
          /\ \A ll \in DOMAIN schema.type :
               C15_Projected(schema.type[ll], allFormFields[ll])
          /\ formFields = [isNull |-> FALSE,
                           sections |-> allFormFields[docType]])
  /\ [][(~effectData.isNull /\ effectData' # effectData /\ mounted') =>
          allFormFields' = allFormFields]_vars

\* the effect ran on the publication and again on a merge; one docType's
\* groupList orders its entries against group, one names an unresolved id
C15_Witness ==
  /\ mounted
  /\ effectData = data
  /\ Len(AllDocuments) >= 2
  /\ DOMAIN allFormFields = DOMAIN schema.type
  /\ \E ll \in DOMAIN schema.type :
       /\ Len(allFormFields[ll]) = 2
       /\ Len(schema.type[ll].group) = 2
       /\ schema.type[ll].group[1].id # schema.type[ll].group[2].id
       /\ allFormFields[ll][1] = schema.type[ll].group[2]
       /\ allFormFields[ll][2] = schema.type[ll].group[1]
  /\ \E ll \in DOMAIN schema.type :
       Len(allFormFields[ll]) < Len(schema.type[ll].groupList)

====
